---- MODULE Spec2Model ----
(***************************************************************************)
(* Model of src/cosmic/cli.py: a command line tool that provisions a local *)
(* Kind cluster by shelling out to kind, docker, kubectl and helm.         *)
(*                                                                         *)
(* One action per run_command call site.  The external world (clusters,    *)
(* registry container, argocd namespace) and the health of the tools       *)
(* decide the outcome of every command.  A call of a subcommand from       *)
(* setup_all (cli.py:312) is modelled as the execution of that             *)
(* subcommand's function body, click.Abort propagating to the caller.      *)
(***************************************************************************)
EXTENDS Integers, Sequences, FiniteSets, TLC

VARIABLES
    clusters,     \* names of the Kind clusters that exist
    registry,     \* container kind-registry: "absent", "running", "stopped"
    namespace,    \* TRUE iff namespace argocd exists
    files,        \* documents the tool has written to the working directory
    start,        \* the external world as the current run found it
    health,       \* per command: how the tool behaves ("unknown" until first use)
    cmd,          \* subcommand the process was started with ("none" before any)
    step,         \* index into setup_all's commands list, 0 outside setup_all
    pc,           \* call site the process is at, "done" when it has exited
    i,            \* loop index of the for loops (tools, nodes)
    log,          \* commands handed to subprocess.run in this run, in order
    out,          \* messages echoed in this run, in order
    exit_code,    \* exit status of the process, -1 while it runs
    rerun,        \* TRUE iff this run directly follows a run of the same subcommand
    prev_exit     \* exit status of the run before a rerun, -1 otherwise

vars == <<clusters, registry, namespace, files, start, health, cmd, step, pc, i, log, out,
          exit_code, rerun, prev_exit>>

\* ---------------------------------------------------------------- bounds
\* nodes reported by "kind get nodes" for an existing cluster
NumNodes == 2

\* ---------------------------------------------------------------- strings
\* Names that take part in a substring test are sequences of characters.
cluster_name == <<"k", "i", "n", "d">>
KindDev == <<"k", "i", "n", "d", "-", "d", "e", "v">>
Dev == <<"d", "e", "v">>

\* cluster names in the order "kind get clusters" lists them (sorted)
AllClusters == <<Dev, cluster_name, KindDev>>

\* the text "kind get clusters" prints: one name per line
RECURSIVE JoinLines(_, _)
JoinLines(names, present) ==
    IF names = <<>> THEN <<>>
    ELSE IF Head(names) \in present
         THEN Head(names) \o <<"\n">> \o JoinLines(Tail(names), present)
         ELSE JoinLines(Tail(names), present)

Listing(present) == JoinLines(AllClusters, present)

\* Python's "needle in text" on strings
Contains(needle, text) ==
    \E k \in 0..(Len(text) - Len(needle)) :
        \A j \in 1..Len(needle) : text[k + j] = needle[j]

\* ---------------------------------------------------------------- commands
required_tools == <<"kind", "docker", "kubectl", "helm">>

\* node names of the cluster that create_cluster's configuration describes
NodeNames == <<"kind-control-plane", "kind-worker", "kind-worker2", "kind-worker3">>

\* node 0 stands for the empty name that ''.split('\n') yields
Node(n) == IF n = 0 THEN "" ELSE NodeNames[n]

Which(tool) == <<"which", tool>>
KindGetClusters == <<"kind", "get", "clusters">>
KindDeleteCluster == <<"kind", "delete", "cluster">>
DockerInspect == <<"docker", "inspect">>
DockerStop == <<"docker", "stop">>
DockerRm == <<"docker", "rm">>
DockerRun == <<"docker", "run">>
KindCreateCluster == <<"kind", "create", "cluster">>
KindGetNodes == <<"kind", "get", "nodes">>
DockerExecMkdir(n) == <<"docker", "exec", "mkdir", Node(n)>>
DockerExecTee(n) == <<"docker", "exec", "tee", Node(n)>>
DockerNetworkConnect == <<"docker", "network", "connect">>
KubectlApplyRegistry == <<"kubectl", "apply", "registry-config">>
DockerPull == <<"docker", "pull">>
KindLoad == <<"kind", "load">>
HelmRepoAdd == <<"helm", "repo", "add">>
HelmUpgrade == <<"helm", "upgrade">>
RolloutCilium == <<"kubectl", "rollout", "cilium">>
KubectlApplyMultus == <<"kubectl", "apply", "multus">>
RolloutMultus == <<"kubectl", "rollout", "multus">>
KubectlGetNamespace == <<"kubectl", "get", "namespace">>
KubectlCreateNamespace == <<"kubectl", "create", "namespace">>
KubectlApplyArgocd == <<"kubectl", "apply", "argocd">>
RolloutArgocd == <<"kubectl", "rollout", "argocd">>
KubectlPatch == <<"kubectl", "patch">>
KubectlGetSecret == <<"kubectl", "get", "secret">>
KubectlPortForward == <<"kubectl", "port-forward">>
GetPodsCilium == <<"kubectl", "get", "pods", "cilium">>
GetPodsMultus == <<"kubectl", "get", "pods", "multus">>

NodeIds == 0..NumNodes

Commands ==
    {Which(required_tools[t]) : t \in 1..Len(required_tools)}
    \cup {DockerExecMkdir(n) : n \in NodeIds}
    \cup {DockerExecTee(n) : n \in NodeIds}
    \cup {KindGetClusters, KindDeleteCluster, DockerInspect, DockerStop,
          DockerRm, DockerRun, KindCreateCluster, KindGetNodes,
          DockerNetworkConnect, KubectlApplyRegistry, DockerPull, KindLoad,
          HelmRepoAdd, HelmUpgrade, RolloutCilium, KubectlApplyMultus,
          RolloutMultus, KubectlGetNamespace, KubectlCreateNamespace,
          KubectlApplyArgocd, RolloutArgocd, KubectlPatch, KubectlGetSecret,
          KubectlPortForward, GetPodsCilium, GetPodsMultus}

\* the call sites that pass shell=True
ShellCommands ==
    {DockerExecMkdir(n) : n \in NodeIds}
    \cup {DockerExecTee(n) : n \in NodeIds}
    \cup {DockerRun, DockerNetworkConnect, HelmUpgrade, KubectlPatch,
          KubectlGetSecret, KubectlPortForward}

\* ---------------------------------------------------------------- world
\* what "kind get nodes" prints, split into lines
Nodes(present) ==
    IF cluster_name \in present THEN [n \in 1..NumNodes |-> n] ELSE <<0>>

\* TRUE iff the external world lets a healthy tool complete the command
WorldAccepts(c) ==
    CASE c = DockerInspect -> registry # "absent"
      [] c = DockerStop -> registry # "absent"
      [] c = DockerRm -> registry = "stopped"
      [] c = DockerRun -> registry = "absent"
      [] c = KindCreateCluster -> cluster_name \notin clusters
      [] c = KubectlGetNamespace -> namespace
      [] c = KubectlCreateNamespace -> ~namespace
      [] c \in {DockerExecMkdir(0), DockerExecTee(0)} -> FALSE
      [] OTHER -> TRUE

\* what a completed command leaves behind
ClustersAfter(c) ==
    CASE c = KindDeleteCluster -> clusters \ {cluster_name}
      [] c = KindCreateCluster -> clusters \cup {cluster_name}
      [] OTHER -> clusters

RegistryAfter(c) ==
    CASE c = DockerStop -> "stopped"
      [] c = DockerRm -> "absent"
      [] c = DockerRun -> "running"
      [] OTHER -> registry

NamespaceAfter(c) == IF c = KubectlCreateNamespace THEN TRUE ELSE namespace

\* how a tool can behave on a command: as it did before in this session,
\* otherwise it completes, exits non-zero, or (direct exec) cannot be launched
Behaviours(c) ==
    IF health[c] # "unknown" THEN {health[c]}
    ELSE IF c \in ShellCommands THEN {"ok", "nonzero"}
    ELSE {"ok", "nonzero", "nolaunch"}

\* ---------------------------------------------------------------- runner
\* run_command: the exception that leaves run_command, "none" when it
\* returns.  subprocess.run(check=True) raises CalledProcessError on a
\* non-zero exit, which run_command turns into click.Abort; a program that
\* cannot be launched raises FileNotFoundError, which run_command lets pass.
run_command(c, b) ==
    CASE b = "nolaunch" -> "OSError"
      [] b = "nonzero" -> "Abort"
      [] b = "ok" /\ ~WorldAccepts(c) -> "Abort"
      [] OTHER -> "none"

\* what run_command echoes before it raises click.Abort
ErrorEcho(c, exc) ==
    IF exc = "Abort" THEN << <<"Error executing command">> \o c >> ELSE <<>>

\* ---------------------------------------------------------------- control
\* mutant of commands: the two add-on installs change places
commands_reordered ==
    << <<"Prerequisites Check", "check">>,
       <<"Cleanup", "cleanup">>,
       <<"Setup Registry", "setup_registry">>,
       <<"Create Cluster", "create_cluster">>,
       <<"Configure Registry", "configure_registry">>,
       <<"Install Multus", "install_multus">>,
       <<"Install Cilium", "install_cilium">>,
       <<"Verify Installation", "verify">> >>

\* setup_all's list of (step name, function)
commands ==
    << <<"Prerequisites Check", "check">>,
       <<"Cleanup", "cleanup">>,
       <<"Setup Registry", "setup_registry">>,
       <<"Create Cluster", "create_cluster">>,
       <<"Configure Registry", "configure_registry">>,
       <<"Install Cilium", "install_cilium">>,
       <<"Install Multus", "install_multus">>,
       <<"Verify Installation", "verify">> >>

Subcommands ==
    {commands[k][2] : k \in 1..Len(commands)}
    \cup {"install_argocd", "port_forward_argocd", "setup_all"}

\* first call site of a function
EntryPc(fn) ==
    CASE fn = "check" -> "check_prerequisites"
      [] fn = "cleanup" -> "cleanup_get_clusters"
      [] fn = "setup_registry" -> "setup_registry"
      [] fn = "create_cluster" -> "create_cluster"
      [] fn = "configure_registry" -> "configure_get_nodes"
      [] fn = "install_cilium" -> "cilium_pull"
      [] fn = "install_multus" -> "multus_apply"
      [] fn = "verify" -> "verify_cilium"
      [] fn = "install_argocd" -> "argocd_get_namespace"
      [] fn = "port_forward_argocd" -> "port_forward_argocd"
      [] fn = "setup_all" -> "check_prerequisites"

Starting(k) == <<"Starting", commands[k][1]>>
SetupFailed(k) == <<"Setup failed during", commands[k][1]>>
SetupFinished == <<"Complete setup finished successfully!">>

\* stay inside the current function: continue at call site p
Goto(p, j, msgs) ==
    /\ pc' = p
    /\ i' = j
    /\ out' = out \o msgs
    /\ UNCHANGED <<step, exit_code>>

\* the process ends: click's entry point maps a normal return to status 0
\* and an exception that reaches it to status 1
cli(status, msgs) ==
    /\ pc' = "done"
    /\ exit_code' = status
    /\ out' = out \o msgs
    /\ UNCHANGED <<step, i>>

\* setup_all, after command() returned: the loop goes on to the next step,
\* or the list is exhausted and the final message is echoed
setup_all_next(msgs) ==
    IF step < Len(commands)
    THEN /\ step' = step + 1
         /\ pc' = EntryPc(commands[step + 1][2])
         /\ i' = 1
         /\ out' = out \o msgs \o <<Starting(step + 1)>>
         /\ UNCHANGED exit_code
    ELSE cli(0, msgs \o <<SetupFinished>>)

\* mutant of setup_all_except: the failure is reported and the loop goes on
setup_all_except_continues(msgs) ==
    setup_all_next(msgs \o <<SetupFailed(step)>>)

\* setup_all, after command() raised click.Abort: report the step, return
setup_all_except(msgs) ==
    cli(0, msgs \o <<SetupFailed(step)>>)

\* the current function returns normally
Return(msgs) ==
    IF cmd = "setup_all" THEN setup_all_next(msgs) ELSE cli(0, msgs)

\* an exception leaves the current function
Raise(exc, msgs) ==
    IF cmd = "setup_all" /\ exc = "Abort"
    THEN setup_all_except(msgs)
    ELSE cli(1, msgs \o << <<"Uncaught", exc>> >>)

\* what a call of run_command(c) does to the world when the tool behaves as
\* b, after the documents in written were written
Effects(written, c, b) ==
    LET exc == run_command(c, b) IN
    /\ health' = [health EXCEPT ![c] = b]
    /\ log' = Append(log, c)
    /\ clusters' = IF exc = "none" THEN ClustersAfter(c) ELSE clusters
    /\ registry' = IF exc = "none" THEN RegistryAfter(c) ELSE registry
    /\ namespace' = IF exc = "none" THEN NamespaceAfter(c) ELSE namespace
    /\ files' = files \cup written
    /\ UNCHANGED <<cmd, start, rerun, prev_exit>>

\* a step between two call sites that runs no command
Local ==
    UNCHANGED <<clusters, registry, namespace, files, start, health, log, cmd,
                rerun, prev_exit>>

\* ---------------------------------------------------------------- check
NotInstalled(tool) == <<"Error: not installed or not in PATH", tool>>
CheckOk == <<"All prerequisites are installed!">>
CheckFailed == <<"Prerequisites check failed">>

\* mutant of check_prerequisites: a missing tool is reported and the loop
\* goes on to the next tool
check_prerequisites_continues ==
    /\ pc = "check_prerequisites"
    /\ \E b \in Behaviours(Which(required_tools[i])) :
           LET e == run_command(Which(required_tools[i]), b)
               m == ErrorEcho(Which(required_tools[i]), e)
           IN
           /\ Effects({}, Which(required_tools[i]), b)
           /\ IF e = "none"
              THEN IF i < Len(required_tools)
                   THEN Goto("check_prerequisites", i + 1, m)
                   ELSE Goto("check_returned", i, m)
              ELSE IF i < Len(required_tools)
                   THEN Goto("check_prerequisites", i + 1,
                             m \o <<NotInstalled(required_tools[i])>>)
                   ELSE Goto("check_aborted", i,
                             m \o <<NotInstalled(required_tools[i])>>)

\* check_prerequisites: one iteration of the loop over required_tools
check_prerequisites ==
    /\ pc = "check_prerequisites"
    /\ \E b \in Behaviours(Which(required_tools[i])) :
           LET e == run_command(Which(required_tools[i]), b)
               m == ErrorEcho(Which(required_tools[i]), e)
           IN
           /\ Effects({}, Which(required_tools[i]), b)
           /\ IF e = "none"
              THEN IF i < Len(required_tools)
                   THEN Goto("check_prerequisites", i + 1, m)
                   ELSE Goto("check_returned", i, m)
              ELSE Goto("check_aborted", i, m \o <<NotInstalled(required_tools[i])>>)

\* check: the code around the call of check_prerequisites
check ==
    /\ pc \in {"check_returned", "check_aborted"}
    /\ Local
    /\ IF pc = "check_returned"
       THEN Return(<<CheckOk>>)
       ELSE Return(<<CheckFailed>>)

\* ---------------------------------------------------------------- cleanup
CleanupOk == <<"Cleanup completed!">>

\* mutant of cleanup_get_clusters: the cluster is deleted without a probe
cleanup_get_clusters_unguarded ==
    /\ pc = "cleanup_get_clusters"
    /\ \E b \in Behaviours(KindGetClusters) :
           LET e == run_command(KindGetClusters, b)
               m == ErrorEcho(KindGetClusters, e)
           IN
           /\ Effects({}, KindGetClusters, b)
           /\ IF e = "none"
              THEN Goto("cleanup_delete_cluster", i, m)
              ELSE Raise(e, m)

cleanup_get_clusters ==
    /\ pc = "cleanup_get_clusters"
    /\ \E b \in Behaviours(KindGetClusters) :
           LET e == run_command(KindGetClusters, b)
               m == ErrorEcho(KindGetClusters, e)
           IN
           /\ Effects({}, KindGetClusters, b)
           /\ IF e = "none"
              THEN IF Contains(cluster_name, Listing(clusters))
                   THEN Goto("cleanup_delete_cluster", i, m)
                   ELSE Goto("cleanup_inspect", i, m)
              ELSE Raise(e, m)

cleanup_delete_cluster ==
    /\ pc = "cleanup_delete_cluster"
    /\ \E b \in Behaviours(KindDeleteCluster) :
           LET e == run_command(KindDeleteCluster, b)
               m == ErrorEcho(KindDeleteCluster, e)
           IN
           /\ Effects({}, KindDeleteCluster, b)
           /\ IF e = "none"
              THEN Goto("cleanup_inspect", i, m)
              ELSE Raise(e, m)

\* mutant of cleanup_inspect: the probe is not inside the try statement
cleanup_inspect_unprotected ==
    /\ pc = "cleanup_inspect"
    /\ \E b \in Behaviours(DockerInspect) :
           LET e == run_command(DockerInspect, b)
               m == ErrorEcho(DockerInspect, e)
           IN
           /\ Effects({}, DockerInspect, b)
           /\ IF e = "none"
              THEN IF registry = "running"
                   THEN Goto("cleanup_stop", i, m)
                   ELSE Return(m \o <<CleanupOk>>)
              ELSE Raise(e, m)

cleanup_inspect ==
    /\ pc = "cleanup_inspect"
    /\ \E b \in Behaviours(DockerInspect) :
           LET e == run_command(DockerInspect, b)
               m == ErrorEcho(DockerInspect, e)
           IN
           /\ Effects({}, DockerInspect, b)
           /\ IF e = "none"
              THEN IF registry = "running"
                   THEN Goto("cleanup_stop", i, m)
                   ELSE Return(m \o <<CleanupOk>>)
              ELSE Return(m \o <<CleanupOk>>)

\* mutant of cleanup_stop: the call is not inside the try statement
cleanup_stop_unprotected ==
    /\ pc = "cleanup_stop"
    /\ \E b \in Behaviours(DockerStop) :
           LET e == run_command(DockerStop, b)
               m == ErrorEcho(DockerStop, e)
           IN
           /\ Effects({}, DockerStop, b)
           /\ IF e = "none"
              THEN Goto("cleanup_rm", i, m)
              ELSE Raise(e, m)

cleanup_stop ==
    /\ pc = "cleanup_stop"
    /\ \E b \in Behaviours(DockerStop) :
           LET e == run_command(DockerStop, b)
               m == ErrorEcho(DockerStop, e)
           IN
           /\ Effects({}, DockerStop, b)
           /\ IF e = "none"
              THEN Goto("cleanup_rm", i, m)
              ELSE Return(m \o <<CleanupOk>>)

cleanup_rm ==
    /\ pc = "cleanup_rm"
    /\ \E b \in Behaviours(DockerRm) :
           LET e == run_command(DockerRm, b)
               m == ErrorEcho(DockerRm, e)
           IN
           /\ Effects({}, DockerRm, b)
           /\ IF e = "none"
              THEN Return(m \o <<CleanupOk>>)
              ELSE Return(m \o <<CleanupOk>>)

cleanup ==
    \/ cleanup_get_clusters
    \/ cleanup_delete_cluster
    \/ cleanup_inspect
    \/ cleanup_stop
    \/ cleanup_rm

\* ---------------------------------------------------------------- steps
RegistryOk == <<"Registry setup completed!">>
ClusterOk == <<"Cluster created successfully!">>
ConfigureOk == <<"Registry configured successfully!">>
AlreadyConnected == <<"Registry already connected to network">>
CiliumOk == <<"Cilium installed successfully!">>
MultusOk == <<"Multus installed successfully!">>
VerifyOk == <<"Verification completed!">>

setup_registry ==
    /\ pc = "setup_registry"
    /\ \E b \in Behaviours(DockerRun) :
           LET e == run_command(DockerRun, b)
               m == ErrorEcho(DockerRun, e)
           IN
           /\ Effects({}, DockerRun, b)
           /\ IF e = "none"
              THEN Return(m \o <<RegistryOk>>)
              ELSE Raise(e, m)

create_cluster ==
    /\ pc = "create_cluster"
    /\ \E b \in Behaviours(KindCreateCluster) :
           LET e == run_command(KindCreateCluster, b)
               m == ErrorEcho(KindCreateCluster, e)
           IN
           /\ Effects({"kind-config.yaml"}, KindCreateCluster, b)
           /\ IF e = "none"
              THEN Return(m \o <<ClusterOk>>)
              ELSE Raise(e, m)

configure_get_nodes ==
    /\ pc = "configure_get_nodes"
    /\ \E b \in Behaviours(KindGetNodes) :
           LET e == run_command(KindGetNodes, b)
               m == ErrorEcho(KindGetNodes, e)
           IN
           /\ Effects({}, KindGetNodes, b)
           /\ IF e = "none"
              THEN Goto("configure_mkdir", 1, m)
              ELSE Raise(e, m)

configure_mkdir ==
    /\ pc = "configure_mkdir"
    /\ \E b \in Behaviours(DockerExecMkdir(Nodes(clusters)[i])) :
           LET e == run_command(DockerExecMkdir(Nodes(clusters)[i]), b)
               m == ErrorEcho(DockerExecMkdir(Nodes(clusters)[i]), e)
           IN
           /\ Effects({}, DockerExecMkdir(Nodes(clusters)[i]), b)
           /\ IF e = "none"
              THEN Goto("configure_tee", i, m)
              ELSE Raise(e, m)

configure_tee ==
    /\ pc = "configure_tee"
    /\ \E b \in Behaviours(DockerExecTee(Nodes(clusters)[i])) :
           LET e == run_command(DockerExecTee(Nodes(clusters)[i]), b)
               m == ErrorEcho(DockerExecTee(Nodes(clusters)[i]), e)
           IN
           /\ Effects({}, DockerExecTee(Nodes(clusters)[i]), b)
           /\ IF e = "none"
              THEN IF i < Len(Nodes(clusters))
                   THEN Goto("configure_mkdir", i + 1, m)
                   ELSE Goto("configure_connect", i, m)
              ELSE Raise(e, m)

\* mutant of configure_connect: the call is not inside the try statement
configure_connect_unprotected ==
    /\ pc = "configure_connect"
    /\ \E b \in Behaviours(DockerNetworkConnect) :
           LET e == run_command(DockerNetworkConnect, b)
               m == ErrorEcho(DockerNetworkConnect, e)
           IN
           /\ Effects({}, DockerNetworkConnect, b)
           /\ IF e = "none"
              THEN Goto("configure_apply", i, m)
              ELSE Raise(e, m)

configure_connect ==
    /\ pc = "configure_connect"
    /\ \E b \in Behaviours(DockerNetworkConnect) :
           LET e == run_command(DockerNetworkConnect, b)
               m == ErrorEcho(DockerNetworkConnect, e)
           IN
           /\ Effects({}, DockerNetworkConnect, b)
           /\ IF e = "none"
              THEN Goto("configure_apply", i, m)
              ELSE Goto("configure_apply", i, m \o <<AlreadyConnected>>)

configure_apply ==
    /\ pc = "configure_apply"
    /\ \E b \in Behaviours(KubectlApplyRegistry) :
           LET e == run_command(KubectlApplyRegistry, b)
               m == ErrorEcho(KubectlApplyRegistry, e)
           IN
           /\ Effects({"registry-config.yaml"}, KubectlApplyRegistry, b)
           /\ IF e = "none"
              THEN Return(m \o <<ConfigureOk>>)
              ELSE Raise(e, m)

configure_registry ==
    \/ configure_get_nodes
    \/ configure_mkdir
    \/ configure_tee
    \/ configure_connect
    \/ configure_apply

\* install_cilium: the k-th of its five commands
CiliumCommands ==
    <<DockerPull, KindLoad, HelmRepoAdd, HelmUpgrade, RolloutCilium>>
CiliumSites ==
    <<"cilium_pull", "cilium_load", "cilium_repo_add", "cilium_upgrade", "cilium_rollout">>

\* mutant of install_cilium: a failed command does not end the step
install_cilium_continues ==
    \E k \in 1..Len(CiliumCommands) :
        /\ pc = CiliumSites[k]
        /\ \E b \in Behaviours(CiliumCommands[k]) :
               LET e == run_command(CiliumCommands[k], b)
                   m == ErrorEcho(CiliumCommands[k], e)
               IN
               /\ Effects({}, CiliumCommands[k], b)
               /\ IF k < Len(CiliumCommands)
                  THEN Goto(CiliumSites[k + 1], i, m)
                  ELSE IF e = "none" THEN Return(m \o <<CiliumOk>>) ELSE Raise(e, m)

install_cilium ==
    \E k \in 1..Len(CiliumCommands) :
        /\ pc = CiliumSites[k]
        /\ \E b \in Behaviours(CiliumCommands[k]) :
               LET e == run_command(CiliumCommands[k], b)
                   m == ErrorEcho(CiliumCommands[k], e)
               IN
               /\ Effects({}, CiliumCommands[k], b)
               /\ IF e = "none"
                  THEN IF k < Len(CiliumCommands)
                       THEN Goto(CiliumSites[k + 1], i, m)
                       ELSE Return(m \o <<CiliumOk>>)
                  ELSE Raise(e, m)

multus_apply ==
    /\ pc = "multus_apply"
    /\ \E b \in Behaviours(KubectlApplyMultus) :
           LET e == run_command(KubectlApplyMultus, b)
               m == ErrorEcho(KubectlApplyMultus, e)
           IN
           /\ Effects({}, KubectlApplyMultus, b)
           /\ IF e = "none"
              THEN Goto("multus_rollout", i, m)
              ELSE Raise(e, m)

multus_rollout ==
    /\ pc = "multus_rollout"
    /\ \E b \in Behaviours(RolloutMultus) :
           LET e == run_command(RolloutMultus, b)
               m == ErrorEcho(RolloutMultus, e)
           IN
           /\ Effects({}, RolloutMultus, b)
           /\ IF e = "none"
              THEN Return(m \o <<MultusOk>>)
              ELSE Raise(e, m)

install_multus == multus_apply \/ multus_rollout

verify_cilium ==
    /\ pc = "verify_cilium"
    /\ \E b \in Behaviours(GetPodsCilium) :
           LET e == run_command(GetPodsCilium, b)
               m == ErrorEcho(GetPodsCilium, e)
           IN
           /\ Effects({}, GetPodsCilium, b)
           /\ IF e = "none"
              THEN Goto("verify_multus", i, m \o << <<"Cilium pods:">> >>)
              ELSE Raise(e, m)

verify_multus ==
    /\ pc = "verify_multus"
    /\ \E b \in Behaviours(GetPodsMultus) :
           LET e == run_command(GetPodsMultus, b)
               m == ErrorEcho(GetPodsMultus, e)
           IN
           /\ Effects({}, GetPodsMultus, b)
           /\ IF e = "none"
              THEN Return(m \o << <<"Multus pods:">>, VerifyOk >>)
              ELSE Raise(e, m)

verify == verify_cilium \/ verify_multus

\* ---------------------------------------------------------------- argocd
Unexpected == <<"Unexpected error">>
CreatedNamespace == <<"Created namespace">>
Password == <<"Initial admin password">>
NoPassword == <<"Could not retrieve initial admin password">>
ArgocdOk == <<"ArgoCD installed successfully!">>
PortForwardStopped == <<"Port forward stopped">>

\* create_namespace_if_not_exists: which part of the try statement takes
\* what the probe raised.  The first handler names
\* subprocess.CalledProcessError, the second every other Exception;
\* click.Abort and FileNotFoundError are both Exceptions.
\* mutant of NamespaceBranch: the namespace is created whatever the probe says
NamespaceBranch_always_creates(exc) ==
    CASE exc = "none" -> "create"
      [] exc = "CalledProcessError" -> "create"
      [] OTHER -> "unexpected"

NamespaceBranch(exc) ==
    CASE exc = "none" -> "return"
      [] exc = "CalledProcessError" -> "create"
      [] OTHER -> "unexpected"

\* create_namespace_if_not_exists: the probe and, in the first handler, the
\* creation of the namespace
create_namespace_if_not_exists ==
    /\ pc = "argocd_get_namespace"
    /\ \E b \in Behaviours(KubectlGetNamespace) :
        LET probe == run_command(KubectlGetNamespace, b)
            branch == NamespaceBranch(probe)
        IN
        /\ UNCHANGED <<clusters, registry, files, start, cmd, rerun, prev_exit>>
        /\ IF branch = "create"
           THEN \E b2 \in Behaviours(KubectlCreateNamespace) :
                LET exc == run_command(KubectlCreateNamespace, b2) IN
                /\ health' = [health EXCEPT ![KubectlGetNamespace] = b,
                                            ![KubectlCreateNamespace] = b2]
                /\ log' = log \o <<KubectlGetNamespace, KubectlCreateNamespace>>
                /\ namespace' = IF exc = "none"
                                THEN NamespaceAfter(KubectlCreateNamespace)
                                ELSE namespace
                /\ IF exc = "none"
                   THEN Goto("argocd_apply", i,
                             ErrorEcho(KubectlGetNamespace, probe) \o <<CreatedNamespace>>)
                   ELSE Raise(exc, ErrorEcho(KubectlGetNamespace, probe)
                                   \o ErrorEcho(KubectlCreateNamespace, exc))
           ELSE /\ health' = [health EXCEPT ![KubectlGetNamespace] = b]
                /\ log' = Append(log, KubectlGetNamespace)
                /\ UNCHANGED namespace
                /\ IF branch = "return"
                   THEN Goto("argocd_apply", i, <<>>)
                   ELSE Raise("Abort", ErrorEcho(KubectlGetNamespace, probe)
                                       \o <<Unexpected>>)

argocd_apply ==
    /\ pc = "argocd_apply"
    /\ \E b \in Behaviours(KubectlApplyArgocd) :
           LET e == run_command(KubectlApplyArgocd, b)
               m == ErrorEcho(KubectlApplyArgocd, e)
           IN
           /\ Effects({}, KubectlApplyArgocd, b)
           /\ IF e = "none"
              THEN Goto("argocd_rollout", i, m)
              ELSE Raise(e, m)

argocd_rollout ==
    /\ pc = "argocd_rollout"
    /\ \E b \in Behaviours(RolloutArgocd) :
           LET e == run_command(RolloutArgocd, b)
               m == ErrorEcho(RolloutArgocd, e)
           IN
           /\ Effects({}, RolloutArgocd, b)
           /\ IF e = "none"
              THEN Goto("argocd_patch", i, m)
              ELSE Raise(e, m)

argocd_patch ==
    /\ pc = "argocd_patch"
    /\ \E b \in Behaviours(KubectlPatch) :
           LET e == run_command(KubectlPatch, b)
               m == ErrorEcho(KubectlPatch, e)
           IN
           /\ Effects({}, KubectlPatch, b)
           /\ IF e = "none"
              THEN Goto("argocd_secret", i, m)
              ELSE Raise(e, m)

\* mutant of argocd_secret: the call is not inside the try statement
argocd_secret_unprotected ==
    /\ pc = "argocd_secret"
    /\ \E b \in Behaviours(KubectlGetSecret) :
           LET e == run_command(KubectlGetSecret, b)
               m == ErrorEcho(KubectlGetSecret, e)
           IN
           /\ Effects({}, KubectlGetSecret, b)
           /\ IF e = "none"
              THEN Return(m \o <<Password, ArgocdOk>>)
              ELSE Raise(e, m)

argocd_secret ==
    /\ pc = "argocd_secret"
    /\ \E b \in Behaviours(KubectlGetSecret) :
           LET e == run_command(KubectlGetSecret, b)
               m == ErrorEcho(KubectlGetSecret, e)
           IN
           /\ Effects({}, KubectlGetSecret, b)
           /\ IF e = "none"
              THEN Return(m \o <<Password, ArgocdOk>>)
              ELSE Return(m \o <<NoPassword, ArgocdOk>>)

install_argocd ==
    \/ create_namespace_if_not_exists
    \/ argocd_apply
    \/ argocd_rollout
    \/ argocd_patch
    \/ argocd_secret

\* mutant of port_forward_argocd: no handler for KeyboardInterrupt
port_forward_argocd_unhandled ==
    /\ pc = "port_forward_argocd"
    /\ \/ \E b \in Behaviours(KubectlPortForward) :
              LET e == run_command(KubectlPortForward, b)
                  m == ErrorEcho(KubectlPortForward, e)
              IN
              /\ Effects({}, KubectlPortForward, b)
              /\ IF e = "none" THEN Return(m) ELSE Raise(e, m)
       \/ /\ log' = Append(log, KubectlPortForward)
          /\ UNCHANGED <<clusters, registry, namespace, files, start, health, cmd,
                         rerun, prev_exit>>
          /\ Raise("KeyboardInterrupt", <<>>)

\* port_forward_argocd: the tunnel ends by itself, or the operator
\* interrupts it while subprocess.run waits (KeyboardInterrupt)
port_forward_argocd ==
    /\ pc = "port_forward_argocd"
    /\ \/ \E b \in Behaviours(KubectlPortForward) :
              LET e == run_command(KubectlPortForward, b)
                  m == ErrorEcho(KubectlPortForward, e)
              IN
              /\ Effects({}, KubectlPortForward, b)
              /\ IF e = "none" THEN Return(m) ELSE Raise(e, m)
       \/ /\ log' = Append(log, KubectlPortForward)
          /\ UNCHANGED <<clusters, registry, namespace, files, start, health, cmd,
                         rerun, prev_exit>>
          /\ Return(<<PortForwardStopped>>)

\* ---------------------------------------------------------------- runs
ClusterSets == SUBSET {AllClusters[k] : k \in 1..Len(AllClusters)}

Init ==
    /\ clusters \in ClusterSets
    /\ registry \in {"absent", "running", "stopped"}
    /\ namespace \in BOOLEAN
    /\ files = {}
    /\ start = [clusters |-> clusters, registry |-> registry,
                namespace |-> namespace, files |-> files]
    /\ health = [c \in Commands |-> "unknown"]
    /\ cmd = "none"
    /\ step = 0
    /\ pc = "done"
    /\ i = 1
    /\ log = <<>>
    /\ out = <<>>
    /\ exit_code = -1
    /\ rerun = FALSE
    /\ prev_exit = -1

\* the operator starts a subcommand
Start(c) ==
    /\ cmd' = c
    /\ step' = IF c = "setup_all" THEN 1 ELSE 0
    /\ pc' = EntryPc(c)
    /\ i' = 1
    /\ log' = <<>>
    /\ out' = IF c = "setup_all" THEN <<Starting(1)>> ELSE <<>>
    /\ exit_code' = -1
    /\ start' = [clusters |-> clusters, registry |-> registry,
                 namespace |-> namespace, files |-> files]
    /\ UNCHANGED <<clusters, registry, namespace, files>>

\* a run at some later time: the tools may behave differently by then
Invoke(c) ==
    /\ pc = "done"
    /\ Start(c)
    /\ health' = [k \in Commands |-> "unknown"]
    /\ rerun' = FALSE
    /\ prev_exit' = -1

\* the same subcommand again, immediately: the tools behave as before
Rerun ==
    /\ pc = "done"
    /\ cmd # "none"
    /\ Start(cmd)
    /\ rerun' = TRUE
    /\ prev_exit' = exit_code
    /\ UNCHANGED health

Next ==
    \/ \E c \in Subcommands : Invoke(c)
    \/ check_prerequisites
    \/ check
    \/ cleanup
    \/ setup_registry
    \/ create_cluster
    \/ configure_registry
    \/ install_cilium
    \/ install_multus
    \/ verify
    \/ install_argocd
    \/ port_forward_argocd

Spec == Init /\ [][Next]_vars

\* the operator runs cleanup, and runs it again right after it ended
NextCleanup ==
    \/ Invoke("cleanup")
    \/ Rerun
    \/ cleanup

SpecCleanup == Init /\ [][NextCleanup]_vars

TypeOK ==
    /\ clusters \in ClusterSets
    /\ registry \in {"absent", "running", "stopped"}
    /\ namespace \in BOOLEAN
    /\ files \subseteq {"kind-config.yaml", "registry-config.yaml"}
    /\ cmd \in Subcommands \cup {"none"}
    /\ step \in 0..Len(commands)
    /\ exit_code \in {-1, 0, 1}
    /\ (pc = "done") = (exit_code # -1 \/ cmd = "none")

\* ---------------------------------------------------------------- observations
Has(msg) == \E k \in 1..Len(out) : out[k] = msg

Issued(c) == \E k \in 1..Len(log) : log[k] = c

ErrorOf(c) == <<"Error executing command">> \o c

Done == pc = "done" /\ cmd # "none"

\* the commands each function hands to run_command
FnCommands(fn) ==
    CASE fn = "check" -> {Which(required_tools[t]) : t \in 1..Len(required_tools)}
      [] fn = "cleanup" -> {KindGetClusters, KindDeleteCluster, DockerInspect,
                            DockerStop, DockerRm}
      [] fn = "setup_registry" -> {DockerRun}
      [] fn = "create_cluster" -> {KindCreateCluster}
      [] fn = "configure_registry" ->
            {KindGetNodes, DockerNetworkConnect, KubectlApplyRegistry}
            \cup {DockerExecMkdir(n) : n \in NodeIds}
            \cup {DockerExecTee(n) : n \in NodeIds}
      [] fn = "install_cilium" -> {CiliumCommands[k] : k \in 1..Len(CiliumCommands)}
      [] fn = "install_multus" -> {KubectlApplyMultus, RolloutMultus}
      [] fn = "verify" -> {GetPodsCilium, GetPodsMultus}
      [] fn = "install_argocd" -> {KubectlGetNamespace, KubectlCreateNamespace,
                                   KubectlApplyArgocd, RolloutArgocd, KubectlPatch,
                                   KubectlGetSecret}
      [] fn = "port_forward_argocd" -> {KubectlPortForward}

\* the commands whose run_command call sits in a try with a bare except
Tolerated ==
    FnCommands("check")
    \cup {DockerInspect, DockerStop, DockerRm, DockerNetworkConnect, KubectlGetSecret}

\* the pipeline step that issues command c
StepOf(c) == CHOOSE k \in 1..Len(commands) : c \in FnCommands(commands[k][2])

\* step k of the pipeline failed: a required tool was not found (step 1),
\* or a command of the step that is not tolerated exited non-zero
StepFailed(k) ==
    IF k = 1
    THEN \E t \in 1..Len(required_tools) : Has(NotInstalled(required_tools[t]))
    ELSE \E c \in FnCommands(commands[k][2]) \ Tolerated : Has(ErrorOf(c))

\* the step names in the order the specification fixes them
ExpectedTrace ==
    <<"Prerequisites Check", "Cleanup", "Setup Registry", "Create Cluster",
      "Configure Registry", "Install Cilium", "Install Multus", "Verify Installation">>

StepOkMsg ==
    <<CheckOk, CleanupOk, RegistryOk, ClusterOk, ConfigureOk, CiliumOk, MultusOk, VerifyOk>>

IsStarting(m) == m[1] = "Starting"

\* the names of the steps setup_all has started, in order
StartedNames ==
    LET st == SelectSeq(out, IsStarting) IN [k \in 1..Len(st) |-> st[k][2]]

IsPrefix(s, t) == Len(s) <= Len(t) /\ \A k \in 1..Len(s) : s[k] = t[k]

AllStepsSucceeded == \A k \in 1..Len(StepOkMsg) : Has(StepOkMsg[k])

\* ---------------------------------------------------------------- claims
\* C1: in setup_all, when step k fails (step 1: a required tool is not found;
\* later steps: a command that is not tolerated exits non-zero), no command of
\* a later step is issued and the run reports "Setup failed during <step k>".
C1_FailureHaltsPipeline ==
    cmd = "setup_all" =>
        \A k \in 1..Len(commands) :
            StepFailed(k) =>
                /\ \A n \in 1..Len(log) : StepOf(log[n]) <= k
                /\ pc = "done" => out[Len(out)] = SetupFailed(k)

\* C2: the steps setup_all starts are always a prefix of the fixed list, and
\* when every step has succeeded the started steps are exactly the eight names
\* in order and the run ends with the final success message.
C2_FixedOrder ==
    cmd = "setup_all" =>
        /\ IsPrefix(StartedNames, ExpectedTrace)
        /\ (pc = "done" /\ AllStepsSucceeded) =>
               /\ StartedNames = ExpectedTrace
               /\ out[Len(out)] = SetupFinished
               /\ exit_code = 0

C2_Witness ==
    /\ cmd = "setup_all"
    /\ pc = "done"
    /\ AllStepsSucceeded
    /\ StartedNames = ExpectedTrace

\* a run stopped on its first failure: a prerequisite lookup failed, a command
\* that is not tolerated exited non-zero, or an exception reached the top
StoppedOnFailure ==
    \/ StepFailed(1)
    \/ \E c \in Commands \ Tolerated : Has(ErrorOf(c))
    \/ \E e \in {"Abort", "OSError"} : Has(<<"Uncaught", e>>)

\* C3: every subcommand ends with exit status 0 when it succeeds and with a
\* non-zero exit status when it stopped on its first failure.
C3_ExitStatus ==
    Done => (StoppedOnFailure <=> exit_code # 0)

C3_Witness == Done /\ StoppedOnFailure /\ exit_code = 0

Resolved(t) == health[Which(required_tools[t])] = "ok"

\* C4: the check looks the tools up in list order; when all four resolve it
\* reports success; otherwise it stops at the first tool that does not
\* resolve, names exactly that tool and looks up no later tool.
C4_FirstMissingTool ==
    (Done /\ cmd = "check") =>
        LET n == Len(log) IN
        /\ n \in 1..Len(required_tools)
        /\ \A k \in 1..n : log[k] = Which(required_tools[k])
        /\ \A k \in 1..(n - 1) : Resolved(k)
        /\ IF Resolved(n)
           THEN n = Len(required_tools) /\ out = <<CheckOk>>
           ELSE /\ \A t \in 1..Len(required_tools) :
                      Has(NotInstalled(required_tools[t])) <=> t = n
                /\ out[Len(out)] = CheckFailed
                /\ ~Has(CheckOk)

C4_Witness ==
    /\ Done
    /\ cmd = "check"
    /\ Len(log) = 2
    /\ Has(NotInstalled("docker"))

\* C5: in install_argocd, when the probe "kubectl get namespace argocd" exits
\* non-zero, the namespace-create command is issued next and the step goes on.
C5_CreatesMissingNamespace ==
    (cmd = "install_argocd" /\ Has(ErrorOf(KubectlGetNamespace))) =>
        /\ Len(log) >= 2
        /\ log[2] = KubectlCreateNamespace
        /\ ~Has(<<"Uncaught", "Abort">>) \/ Has(ErrorOf(KubectlCreateNamespace))

ArgocdMiddle == {KubectlApplyArgocd, RolloutArgocd, KubectlPatch}

\* the probe of install_argocd returned normally: the namespace exists
ProbeFoundNamespace ==
    /\ Len(log) >= 1
    /\ log[1] = KubectlGetNamespace
    /\ health[KubectlGetNamespace] = "ok"
    /\ start.namespace

\* C6: in install_argocd, when the probe finds the namespace, the
\* namespace-create command is never issued, and if manifest apply, rollout
\* wait and service patch do not fail, the commands issued are the probe, the
\* apply, the rollout wait, the patch and the credential retrieval, in order.
C6_ExistingNamespace ==
    (cmd = "install_argocd" /\ ProbeFoundNamespace) =>
        /\ ~Issued(KubectlCreateNamespace)
        /\ (pc = "done" /\ \A c \in ArgocdMiddle : health[c] \in {"unknown", "ok"}) =>
               log = <<KubectlGetNamespace, KubectlApplyArgocd, RolloutArgocd,
                       KubectlPatch, KubectlGetSecret>>

C6_Witness ==
    /\ Done
    /\ cmd = "install_argocd"
    /\ ProbeFoundNamespace
    /\ Issued(KubectlApplyArgocd)
    /\ Issued(KubectlGetSecret)

\* C7: in install_argocd a failed credential retrieval is a warning and the
\* step still ends with its success message; a failed manifest apply, rollout
\* wait or service patch ends the step before the credential retrieval.
C7_CredentialWarning ==
    (Done /\ cmd = "install_argocd") =>
        /\ (Issued(KubectlGetSecret) /\ health[KubectlGetSecret] # "ok") =>
               /\ exit_code = 0
               /\ Has(NoPassword)
               /\ out[Len(out)] = ArgocdOk
        /\ (\E c \in ArgocdMiddle : Issued(c) /\ health[c] # "ok") =>
               /\ ~Issued(KubectlGetSecret)
               /\ exit_code = 1
               /\ ~Has(ArgocdOk)

C7_Witness ==
    /\ Done
    /\ cmd = "install_argocd"
    /\ Issued(KubectlGetSecret)
    /\ health[KubectlGetSecret] = "nonzero"
    /\ Has(NoPassword)

\* C8: a cleanup run that directly follows a cleanup run that completed
\* completes too, whatever the clusters and the registry container were.
C8_CleanupIdempotent ==
    (Done /\ cmd = "cleanup" /\ rerun /\ prev_exit = 0) =>
        /\ exit_code = 0
        /\ out[Len(out)] = CleanupOk

\* the second run finds the container gone that the first run removed
C8_Witness ==
    /\ Done
    /\ cmd = "cleanup"
    /\ rerun
    /\ prev_exit = 0
    /\ health[DockerRm] = "ok"
    /\ start.registry = "absent"
    /\ exit_code = 0

Mutating == {KindDeleteCluster, DockerStop, DockerRm}

\* C9: cleanup started with no cluster and no registry container, the cluster
\* listing working, issues the two probes and nothing else, changes nothing
\* and ends with its success message.
C9_NothingToClean ==
    (Done /\ cmd = "cleanup" /\ start.clusters = {} /\ start.registry = "absent"
          /\ health[KindGetClusters] = "ok") =>
        /\ log = <<KindGetClusters, DockerInspect>>
        /\ \A c \in Mutating : ~Issued(c)
        /\ clusters = start.clusters /\ registry = start.registry
        /\ out[Len(out)] = CleanupOk
        /\ exit_code = 0

C9_Witness ==
    /\ Done
    /\ cmd = "cleanup"
    /\ start.clusters = {}
    /\ start.registry = "absent"
    /\ health[KindGetClusters] = "ok"
    /\ out[Len(out)] = CleanupOk

ConnectFailed == Issued(DockerNetworkConnect) /\ health[DockerNetworkConnect] # "ok"

\* C10: in configure_registry a failed "docker network connect" does not end
\* the step: the registry-hosting document is written and applied next, and
\* the step ends in success when the apply succeeds.
C10_ConnectTolerated ==
    (cmd = "configure_registry" /\ ConnectFailed /\ pc # "configure_apply") =>
        /\ Has(AlreadyConnected)
        /\ log[Len(log)] = KubectlApplyRegistry
        /\ log[Len(log) - 1] = DockerNetworkConnect
        /\ "registry-config.yaml" \in files
        /\ health[KubectlApplyRegistry] = "ok" =>
               (exit_code = 0 /\ out[Len(out)] = ConfigureOk)

C10_Witness ==
    /\ Done
    /\ cmd = "configure_registry"
    /\ ConnectFailed
    /\ "registry-config.yaml" \notin start.files
    /\ out[Len(out)] = ConfigureOk

\* ---------------------------------------------------------------- claims, continued
\* command c was issued in this run and did not complete: it exited non-zero
\* (its error is echoed) or it could not be launched
FailedCmd(c) == Issued(c) /\ (Has(ErrorOf(c)) \/ health[c] = "nolaunch")

NoDuplicates(s) == \A a, b \in 1..Len(s) : s[a] = s[b] => a = b

AnyStepFailed == \E k \in 1..Len(commands) : StepFailed(k)

\* C11: in one setup_all run no step is started twice, and once a step has
\* failed the run issues no further external command.
C11_TerminalNoRetry ==
    [][(cmd = "setup_all" /\ pc # "done") =>
           /\ NoDuplicates(StartedNames')
           /\ AnyStepFailed => log' = log]_vars

\* the operator interrupted the tunnel: the command was issued and never
\* ended by itself
Interrupted == Issued(KubectlPortForward) /\ health[KubectlPortForward] = "unknown"

\* C12: in port_forward_argocd an interrupt of the running tunnel ends the
\* step normally with "Port forward stopped" and exit status 0; the step
\* aborts exactly when the tunnel command itself exits non-zero.
C12_InterruptIsNormalExit ==
    (Done /\ cmd = "port_forward_argocd") =>
        /\ Interrupted =>
               /\ exit_code = 0
               /\ out[Len(out)] = PortForwardStopped
               /\ ~Has(ErrorOf(KubectlPortForward))
        /\ exit_code # 0 <=> Has(ErrorOf(KubectlPortForward))
        /\ Has(ErrorOf(KubectlPortForward)) =>
               /\ Has(<<"Uncaught", "Abort">>)
               /\ ~Has(PortForwardStopped)

C12_Witness ==
    /\ Done
    /\ cmd = "port_forward_argocd"
    /\ Interrupted
    /\ Has(PortForwardStopped)
    /\ exit_code = 0

\* the commands of a step in the order its code issues them
NodeLoop(nodes) ==
    [k \in 1..(2 * Len(nodes)) |->
        IF k % 2 = 1 THEN DockerExecMkdir(nodes[(k + 1) \div 2])
        ELSE DockerExecTee(nodes[k \div 2])]

StepSeq(fn) ==
    CASE fn = "setup_registry" -> <<DockerRun>>
      [] fn = "create_cluster" -> <<KindCreateCluster>>
      [] fn = "configure_registry" ->
            <<KindGetNodes>> \o NodeLoop(Nodes(clusters))
            \o <<DockerNetworkConnect, KubectlApplyRegistry>>
      [] fn = "install_cilium" -> CiliumCommands
      [] fn = "install_multus" -> <<KubectlApplyMultus, RolloutMultus>>
      [] fn = "verify" -> <<GetPodsCilium, GetPodsMultus>>

SequencedSteps ==
    {"setup_registry", "create_cluster", "configure_registry", "install_cilium",
     "install_multus", "verify"}

\* the commands of function fn that this run has issued, in order
StepLog(fn) ==
    LET OfFn(c) == c \in FnCommands(fn) IN SelectSeq(log, OfFn)

\* the success message of each of these steps
OkMsgOf(fn) == StepOkMsg[CHOOSE k \in 1..Len(commands) : commands[k][2] = fn]

\* the abort of function fn is reported: it reaches click, or setup_all names
\* the step
AbortReported(fn) ==
    IF cmd = "setup_all"
    THEN \E k \in 1..Len(commands) : commands[k][2] = fn /\ Has(SetupFailed(k))
    ELSE Has(<<"Uncaught", "Abort">>) /\ exit_code = 1

\* C13: the commands a step issues are a prefix of its fixed sequence
\* (install_cilium: pull, load, repo add, upgrade, rollout wait; likewise
\* setup_registry, create_cluster, install_multus, verify and the node loop
\* of configure_registry); a command of the step that fails, other than the
\* tolerated network connect, is the last one the step issues, the step's
\* success message is not echoed, and a non-zero exit ends the step in abort.
C13_ShortCircuit ==
    \A fn \in SequencedSteps :
        (cmd \in {fn, "setup_all"}) =>
            LET L == StepLog(fn) IN
            /\ IsPrefix(L, StepSeq(fn))
            /\ \A j \in 1..Len(L) :
                   (FailedCmd(L[j]) /\ L[j] \notin Tolerated) =>
                       /\ j = Len(L)
                       /\ ~Has(OkMsgOf(fn))
                       /\ pc = "done"
                       /\ Has(ErrorOf(L[j])) => AbortReported(fn)

C13_Witness ==
    /\ Done
    /\ cmd = "install_cilium"
    /\ log = <<DockerPull, KindLoad, HelmRepoAdd>>
    /\ Has(ErrorOf(HelmRepoAdd))
    /\ exit_code = 1

\* C14: in cleanup a failure of the container probe, stop or remove is
\* swallowed and cleanup still echoes its success message; a failure of the
\* cluster listing or of the cluster delete ends cleanup before the container
\* is probed and without the success message.
C14_BestEffortRegistry ==
    (cmd \in {"cleanup", "setup_all"}) =>
        /\ \A c \in {DockerInspect, DockerStop, DockerRm} :
               FailedCmd(c) =>
                   /\ Has(CleanupOk)
                   /\ cmd = "cleanup" => (pc = "done" /\ exit_code = 0)
        /\ \A c \in {KindGetClusters, KindDeleteCluster} :
               FailedCmd(c) =>
                   /\ ~Issued(DockerInspect)
                   /\ ~Has(CleanupOk)
                   /\ pc = "done"
                   /\ cmd = "cleanup" => exit_code = 1

C14_Witness ==
    /\ Done
    /\ cmd = "cleanup"
    /\ Has(ErrorOf(DockerStop))
    /\ out[Len(out)] = CleanupOk
    /\ exit_code = 0

\* C15: whatever makes a command fail inside run_command, a program that
\* cannot be launched included, the command is echoed as failed and
\* click.Abort is what leaves run_command: nothing else reaches the top, and
\* in setup_all the failure of a command that is not tolerated is reported
\* under the name of its step.
C15_EveryFailureAborts ==
    /\ ~Has(<<"Uncaught", "OSError">>)
    /\ \A c \in Commands :
           (Issued(c) /\ health[c] = "nolaunch") =>
               /\ Has(ErrorOf(c))
               /\ (cmd = "setup_all" /\ pc = "done" /\ c \notin Tolerated) =>
                      Has(SetupFailed(StepOf(c)))

\* C16: in setup_all, install_multus issues its first command only after the
\* rollout wait of install_cilium has succeeded, install_cilium and
\* configure_registry issue their first command only after the cluster was
\* created, and the cluster create is issued only after the registry
\* container was set up.
C16_DependencyGating ==
    cmd = "setup_all" =>
        /\ Issued(KubectlApplyMultus) =>
               /\ Issued(RolloutCilium)
               /\ ~FailedCmd(RolloutCilium)
               /\ Has(CiliumOk)
        /\ (Issued(DockerPull) \/ Issued(KindGetNodes)) =>
               /\ Issued(KindCreateCluster)
               /\ ~FailedCmd(KindCreateCluster)
               /\ Has(ClusterOk)
               /\ cluster_name \in clusters
        /\ Issued(KindCreateCluster) =>
               /\ Issued(DockerRun)
               /\ ~FailedCmd(DockerRun)
               /\ Has(RegistryOk)
               /\ registry = "running"

C16_Witness ==
    /\ cmd = "setup_all"
    /\ Issued(KubectlApplyMultus)
    /\ Issued(RolloutCilium)
    /\ Issued(KindCreateCluster)
    /\ Issued(DockerRun)

\* every command of function fn that was issued completed
AllSucceeded(fn) == \A c \in FnCommands(fn) : Issued(c) => ~FailedCmd(c)

\* C17: when every command cleanup issues succeeds, cleanup leaves neither a
\* cluster named kind nor a container kind-registry, running or stopped, so
\* that in setup_all the registry setup after it does not fail on the
\* container's name.
C17_CleanupLeavesNothing ==
    /\ (Done /\ cmd = "cleanup" /\ AllSucceeded("cleanup")) =>
           /\ cluster_name \notin clusters
           /\ registry = "absent"
    /\ (cmd = "setup_all" /\ AllSucceeded("cleanup") /\ Issued(DockerRun)
           /\ health[DockerRun] = "ok") =>
           ~Has(ErrorOf(DockerRun))

\* C18: cleanup issues the cluster delete exactly when the listing names a
\* cluster kind; clusters of other names, kind-dev among them, do not make it
\* issue the delete.
C18_ExactProbe ==
    (cmd = "cleanup" /\ Issued(KindGetClusters) /\ ~FailedCmd(KindGetClusters)
         /\ pc # "cleanup_delete_cluster") =>
        (Issued(KindDeleteCluster) <=> cluster_name \in start.clusters)

====
